---- MODULE Spec2Model ----
(***************************************************************************)
(* Blockchain event assertion tasks of the scenario player                *)
(* (scenario_player/tasks/blockchain.py): log query, ABI decoding, the    *)
(* event matcher and the three assertion tasks (assert_events,            *)
(* assert_channel_settled_event, assert_ms_claim).                        *)
(*                                                                         *)
(* Python values are modelled as tagged pairs <<tag, payload>>:           *)
(*   <<"int", n>>, <<"str", s>>, <<"bytes", b>>, <<"none", 0>>.           *)
(* Two values are equal in Python iff the pairs are equal.                *)
(***************************************************************************)
EXTENDS Integers, Sequences, FiniteSets

VARIABLES
    blockNumber,              \* web3.eth.blockNumber: the chain head
    logs,                     \* every raw log on the chain, in chain order
    block_execution_started,  \* runner.block_execution_started
    task_storage,             \* runner.task_storage[STORAGE_KEY_CHANNEL_INFO]
    task,                     \* the task instance (its attributes), or NoTask
    result                    \* outcome of the last __init__ / _run call

vars == <<blockNumber, logs, block_execution_started, task_storage, task, result>>

----------------------------------------------------------------------------
(* Bounds *)

MaxBlock == 3

----------------------------------------------------------------------------
(* Python values *)

PyInt(n) == <<"int", n>>

PyStr(s) == <<"str", s>>

PyBytes(b) == <<"bytes", b>>

PyNone == <<"none", 0>>

IsInt(v) == v[1] = "int"

IsStr(v) == v[1] = "str"

\* The characters of the strings the model uses (a TLA+ string is atomic).
\* "sup2" stands for the one-character string U+00B2 (superscript two).
Chars(s) ==
    CASE s = "participant" -> <<"p","a","r","t","i","c","i","p","a","n","t">>
      [] s = "participant1" -> <<"p","a","r","t","i","c","i","p","a","n","t","1">>
      [] s = "participant2" -> <<"p","a","r","t","i","c","i","p","a","n","t","2">>
      [] s = "participant1_amount" ->
            <<"p","a","r","t","i","c","i","p","a","n","t","1","_","a","m","o","u","n","t">>
      [] s = "participant2_amount" ->
            <<"p","a","r","t","i","c","i","p","a","n","t","2","_","a","m","o","u","n","t">>
      [] s = "closing_participant" ->
            <<"c","l","o","s","i","n","g","_","p","a","r","t","i","c","i","p","a","n","t">>
      [] s = "channel_identifier" ->
            <<"c","h","a","n","n","e","l","_","i","d","e","n","t","i","f","i","e","r">>
      [] s = "nonce" -> <<"n","o","n","c","e">>
      [] s = "reward_identifier" ->
            <<"r","e","w","a","r","d","_","i","d","e","n","t","i","f","i","e","r">>
      [] s = "0" -> <<"0">>
      [] s = "1" -> <<"1">>
      [] s = "2" -> <<"2">>
      [] s = "5" -> <<"5">>
      [] s = "01" -> <<"0","1">>
      [] s = "sup2" -> <<"sup2">>
      [] s = "0xA" -> <<"0","x","A">>
      [] s = "0xB" -> <<"0","x","B">>
      [] s = "0xC" -> <<"0","x","C">>
      [] s = "0xTN" -> <<"0","x","T","N">>
      [] s = "0xMS" -> <<"0","x","M","S">>

DecimalDigits == {"0","1","2","3","4","5","6","7","8","9"}

\* Characters with the Unicode numeric property: the decimal digits and
\* others such as U+00B2, which int() does not accept.
NumericChars == DecimalDigits \cup {"sup2"}

DigitValue(c) ==
    CASE c = "0" -> 0 [] c = "1" -> 1 [] c = "2" -> 2 [] c = "3" -> 3
      [] c = "4" -> 4 [] c = "5" -> 5 [] c = "6" -> 6 [] c = "7" -> 7
      [] c = "8" -> 8 [] c = "9" -> 9

\* Python's `sub in s` on strings.
StrContains(s, sub) ==
    LET cs == Chars(s)
        cb == Chars(sub)
    IN  \E i \in 0..(Len(cs) - Len(cb)) :
            \A j \in 1..Len(cb) : cs[i + j] = cb[j]

\* str.isnumeric(): non-empty and every character numeric.
isnumeric(s) ==
    LET cs == Chars(s)
    IN  Len(cs) > 0 /\ \A i \in 1..Len(cs) : cs[i] \in NumericChars

\* Whether int(s) accepts the string (decimal digits only, in this model).
IsDecimal(s) ==
    LET cs == Chars(s)
    IN  Len(cs) > 0 /\ \A i \in 1..Len(cs) : cs[i] \in DecimalDigits

RECURSIVE ParseDigits(_, _)
ParseDigits(cs, acc) ==
    IF cs = <<>> THEN acc
    ELSE ParseDigits(Tail(cs), 10 * acc + DigitValue(Head(cs)))

\* int(value) for an int or a decimal string; ValueError otherwise.
CanInt(v) == IsInt(v) \/ (IsStr(v) /\ IsDecimal(v[2]))

ToInt(v) == IF IsInt(v) THEN v[2] ELSE ParseDigits(Chars(v[2]), 0)

\* dict.items() as a set of (key, value) pairs.
Items(d) == {<<k, d[k]>> : k \in DOMAIN d}

EmptyDict == [k \in {} |-> PyNone]

----------------------------------------------------------------------------
(* Collaborators: node registry, deployment info, contract ABIs *)

AddrA == PyStr("0xA")

AddrB == PyStr("0xB")

AddrC == PyStr("0xC")

\* runner.get_node_address(index): node index -> on-chain address.
NodeAddresses == <<AddrA, AddrB>>

NodeIndexes == 0..(Len(NodeAddresses) - 1)

runner_get_node_address(index) == NodeAddresses[index + 1]

CONTRACT_TOKEN_NETWORK == "TokenNetwork"

CONTRACT_MONITORING_SERVICE == "MonitoringService"

token_network_address == PyStr("0xTN")

\* get_contracts_deployment_info(...)["contracts"]
DeployedContracts == [MonitoringService |-> [address |-> PyStr("0xMS")]]

\* contract_manager.get_contract_abi(name), restricted to the event entries
\* and, per input, its name and whether it is indexed.
Input(name, indexed) == [name |-> name, indexed |-> indexed]

EventABI(name, inputs) == [type |-> "event", name |-> name, inputs |-> inputs]

TokenNetworkABI ==
    { EventABI("ChannelClosed",
               << Input("channel_identifier", TRUE),
                  Input("closing_participant", TRUE),
                  Input("nonce", FALSE) >>),
      EventABI("ChannelSettled",
               << Input("channel_identifier", TRUE),
                  Input("participant1", FALSE),
                  Input("participant1_amount", FALSE),
                  Input("participant2", FALSE),
                  Input("participant2_amount", FALSE) >>) }

MonitoringServiceABI ==
    { EventABI("RewardClaimed",
               << Input("reward_identifier", TRUE) >>),
      EventABI("NewBalanceProofReceived",
               << Input("reward_identifier", TRUE),
                  Input("nonce", FALSE) >>) }

get_contract_abi(contract_name) ==
    IF contract_name = CONTRACT_TOKEN_NETWORK THEN TokenNetworkABI
    ELSE MonitoringServiceABI

\* event_abi_to_log_topic: one-way hash of the event signature, injective on
\* the signatures of one contract.
event_abi_to_log_topic(event_abi) == <<"topic", event_abi.name>>

----------------------------------------------------------------------------
(* The chain: raw logs and transactions *)

\* web3.eth.get_transaction(hash): the chain's transactions, by hash.
Transactions ==
    [txA |-> [from |-> AddrA], txB |-> [from |-> AddrB], txC |-> [from |-> AddrC]]

get_transaction(transaction_hash) == Transactions[transaction_hash]

\* A raw log entry (LogReceipt); blockNumber is set when the block is mined.
RawLog(address, topics, data, transactionHash) ==
    [address |-> address, topics |-> topics, data |-> data,
     transactionHash |-> transactionHash, blockNumber |-> 0]

IndexedInputs(event_abi) == SelectSeq(event_abi.inputs, LAMBDA i : i.indexed)

DataInputs(event_abi) == SelectSeq(event_abi.inputs, LAMBDA i : ~i.indexed)

\* The log a contract emits for an event: indexed arguments go to the topic
\* slots after topic[0], the others to the data payload, in declaration order.
EmitLog(address, event_abi, args, transactionHash) ==
    RawLog(address,
           <<event_abi_to_log_topic(event_abi)>> \o
               [i \in 1..Len(IndexedInputs(event_abi)) |->
                    args[IndexedInputs(event_abi)[i].name]],
           [i \in 1..Len(DataInputs(event_abi)) |->
                    args[DataInputs(event_abi)[i].name]],
           transactionHash)

EventOf(abi, name) == CHOOSE e \in abi : e.name = name

\* A log whose topic[0] is the signature of no event of either contract ABI.
UnknownLog(address) == RawLog(address, << <<"topic", "Unlisted">> >>, <<>>, "txC")

\* web3.eth.get_logs(filter_params) with topics=[]: the logs of the address
\* within [fromBlock, toBlock], in chain order.
get_logs(filter_params) ==
    SelectSeq(logs, LAMBDA l : /\ l.address = filter_params.address
                            /\ filter_params.fromBlock <= l.blockNumber
                            /\ l.blockNumber <= filter_params.toBlock)

----------------------------------------------------------------------------
(* decode_event, query_blockchain_events *)

filter_by_type(type, abi) == {e \in abi : e.type = type}

\* topic_to_event_abi: the dict built from the contract's event ABIs.
topic_to_event_abi(abi) ==
    [t \in {event_abi_to_log_topic(e) : e \in filter_by_type("event", abi)} |->
        CHOOSE e \in filter_by_type("event", abi) : event_abi_to_log_topic(e) = t]

\* get_event_data: the decoded event, its args zipped from topics[1:] and data.
get_event_data(event_abi, log_entry) ==
    LET indexed == IndexedInputs(event_abi)
        plain == DataInputs(event_abi)
        names == {event_abi.inputs[i].name : i \in 1..Len(event_abi.inputs)}
        pos(sq, n) == CHOOSE i \in 1..Len(sq) : sq[i].name = n
        isIndexed(n) == \E i \in 1..Len(indexed) : indexed[i].name = n
    IN  [event |-> event_abi.name,
         args |-> [n \in names |->
                     IF isIndexed(n) THEN log_entry.topics[1 + pos(indexed, n)]
                     ELSE log_entry.data[pos(plain, n)]],
         transactionHash |-> log_entry.transactionHash,
         blockNumber |-> log_entry.blockNumber,
         address |-> log_entry.address]

\* decode_event raises KeyError when topics[0] is no key of topic_to_event_abi.
decode_event_raises(abi, log_) ==
    log_.topics[1] \notin DOMAIN topic_to_event_abi(abi)

decode_event(abi, log_) ==
    get_event_data(topic_to_event_abi(abi)[log_.topics[1]], log_)

Raised(status, message, query) ==
    [status |-> status, message |-> message, events |-> <<>>, query |-> query]

Returned(events, query) ==
    [status |-> "ok", message |-> <<>>, events |-> events, query |-> query]

NoQuery == [fromBlock |-> -1, toBlock |-> -1, address |-> PyNone]

\* A query that skips the logs it cannot decode.
query_blockchain_events_skip(contract_address, contract_name, from_block, to_block) ==
    LET filter_params == [fromBlock |-> from_block, toBlock |-> to_block,
                          address |-> contract_address]
        contract_abi == get_contract_abi(contract_name)
        events == SelectSeq(get_logs(filter_params),
                            LAMBDA l : ~decode_event_raises(contract_abi, l))
    IN  Returned([i \in 1..Len(events) |-> decode_event(contract_abi, events[i])],
                 filter_params)

query_blockchain_events(contract_address, contract_name, from_block, to_block) ==
    LET filter_params == [fromBlock |-> from_block, toBlock |-> to_block,
                          address |-> contract_address]
        events == get_logs(filter_params)
        contract_abi == get_contract_abi(contract_name)
    IN  IF \E i \in 1..Len(events) : decode_event_raises(contract_abi, events[i])
        THEN Raised("KeyError", <<>>, filter_params)
        ELSE Returned([i \in 1..Len(events) |-> decode_event(contract_abi, events[i])],
                      filter_params)

----------------------------------------------------------------------------
(* Call outcomes *)

\* A piece of literal text of an exception message.
Text(s) == <<"text", s>>

\* The intermediate values of a _run call: fetched (the decoded events),
\* matched (the events _filter_events kept) and survivors (the events left
\* when the task's own matching is done).
Locals(fetched, matched, survivors) ==
    [fetched |-> fetched, matched |-> matched, survivors |-> survivors]

NoLocals == Locals(<<>>, <<>>, <<>>)

\* The outcome of a call: the exception raised (status, message) or the value
\* returned (status "ok", events), with the call's intermediate values, the
\* log query it issued and the chain head at the call (at_block).
Outcome(call, status, message, events, locals, query) ==
    [call |-> call, status |-> status, message |-> message, events |-> events,
     fetched |-> locals.fetched, matched |-> locals.matched,
     survivors |-> locals.survivors, query |-> query, at_block |-> blockNumber,
     reward_id |-> PyNone]

NoResult ==
    [call |-> "none", status |-> "none", message |-> <<>>, events |-> <<>>,
     fetched |-> <<>>, matched |-> <<>>, survivors |-> <<>>, query |-> NoQuery,
     at_block |-> -1, reward_id |-> PyNone]

NoTask == [_name |-> "none"]

_verify_config_raises(config, required_keys) ==
    \E key \in required_keys : key \notin DOMAIN config

----------------------------------------------------------------------------
(* QueryBlockchainMixin *)

ContractKnown(self) ==
    \/ self.contract_name = CONTRACT_TOKEN_NETWORK
    \/ self.contract_name \in DOMAIN DeployedContracts

\* self.contract_address as _get_blockchain_events sets it.
ContractAddress(self) ==
    IF self.contract_name = CONTRACT_TOKEN_NETWORK THEN token_network_address
    ELSE DeployedContracts[self.contract_name].address

\* A query that keeps the to_block of the query before it.
_get_blockchain_events_cached(self) ==
    IF ~ContractKnown(self)
    THEN Raised("ScenarioError",
                <<Text("Unknown contract name: "), PyStr(self.contract_name)>>, NoQuery)
    ELSE query_blockchain_events(ContractAddress(self), self.contract_name,
                                 block_execution_started,
                                 IF result.query # NoQuery THEN result.query.toBlock
                                 ELSE blockNumber)

_get_blockchain_events(self) ==
    IF ~ContractKnown(self)
    THEN Raised("ScenarioError",
                <<Text("Unknown contract name: "), PyStr(self.contract_name)>>, NoQuery)
    ELSE query_blockchain_events(ContractAddress(self), self.contract_name,
                                 block_execution_started, blockNumber)

IsNodeIndex(value) == IsInt(value) \/ (IsStr(value) /\ isnumeric(value[2]))

\* int(value) raises ValueError for a numeric string that is not decimal.
_get_node_address_raises(value) == IsNodeIndex(value) /\ ~CanInt(value)

\* A resolver that forgets numeric strings.
_get_node_address_int_only(value) ==
    IF IsInt(value) THEN runner_get_node_address(ToInt(value)) ELSE value

_get_node_address(value) ==
    IF IsNodeIndex(value) THEN runner_get_node_address(ToInt(value)) ELSE value

\* self.event_args after the loop of _filter_events over its items.
ResolvedEventArgs(event_args) ==
    [key \in DOMAIN event_args |->
        IF StrContains(key, "participant") THEN _get_node_address(event_args[key])
        ELSE event_args[key]]

ResolveRaises(event_args) ==
    \E key \in DOMAIN event_args :
        StrContains(key, "participant") /\ _get_node_address_raises(event_args[key])

\* A matcher that requires every constraint pair to be a pair of the event.
ArgsMatch_subset(event_args, e) ==
    e.args # EmptyDict /\ Items(event_args) \subseteq Items(e.args)

\* e["args"] and event_args_items & e["args"].items()
ArgsMatch(event_args, e) ==
    e.args # EmptyDict /\ (Items(event_args) \cap Items(e.args)) # {}

\* A filter that keeps the events of the given name whatever their arguments.
_filter_events_name_only(self, events) ==
    [status |-> "ok",
     events |-> SelectSeq(events, LAMBDA e : e.event = self.event_name),
     event_args |-> self.event_args]

\* Returns the events kept and self.event_args as the call leaves it. When
\* _get_node_address raises, the entry it was resolving is not assigned.
_filter_events(self, events) ==
    LET named == SelectSeq(events, LAMBDA e : e.event = self.event_name)
    IN  IF self.event_args = EmptyDict
        THEN [status |-> "ok", events |-> named, event_args |-> self.event_args]
        ELSE IF ResolveRaises(self.event_args)
        THEN [status |-> "ValueError", events |-> <<>>, event_args |-> self.event_args]
        ELSE [status |-> "ok",
              events |-> SelectSeq(named,
                  LAMBDA e : ArgsMatch(ResolvedEventArgs(self.event_args), e)),
              event_args |-> ResolvedEventArgs(self.event_args)]

----------------------------------------------------------------------------
(* AssertBlockchainEventsTask *)

AssertBlockchainEventsTask_init(config) ==
    [_name |-> "assert_events",
     _config |-> config,
     contract_name |-> config.contract_name,
     event_name |-> config.event_name,
     num_events |-> config.num_events,
     event_args |-> IF "event_args" \in DOMAIN config THEN config.event_args
                    ELSE EmptyDict,
     contract_address |-> PyNone]

\* A verdict that only rejects too few events.
AssertBlockchainEvents_verdict_atleast(self, events) ==
    IF self.num_events > Len(events)
    THEN [status |-> "ScenarioAssertionError",
          message |-> << Text("Expected number of events ("), PyInt(self.num_events),
                         Text(") did not match the number of events found ("),
                         PyInt(Len(events)), Text(")") >>,
          events |-> <<>>]
    ELSE [status |-> "ok", message |-> <<>>, events |-> events]

\* A verdict whose message leaves out the number of events found.
AssertBlockchainEvents_verdict_noactual(self, events) ==
    IF self.num_events # Len(events)
    THEN [status |-> "ScenarioAssertionError",
          message |-> << Text("Expected number of events ("), PyInt(self.num_events),
                         Text(") did not match the number of events found") >>,
          events |-> <<>>]
    ELSE [status |-> "ok", message |-> <<>>, events |-> events]

\* The verdict of _run once the matcher has returned `events`.
AssertBlockchainEvents_verdict(self, events) ==
    IF self.num_events # Len(events)
    THEN [status |-> "ScenarioAssertionError",
          message |-> << Text("Expected number of events ("), PyInt(self.num_events),
                         Text(") did not match the number of events found ("),
                         PyInt(Len(events)), Text(")") >>,
          events |-> <<>>]
    ELSE [status |-> "ok", message |-> <<>>, events |-> events]

\* _run: the task as the call leaves it, and the call's outcome.
AssertBlockchainEventsTask_run(self) ==
    LET q == _get_blockchain_events(self)
        self1 == IF ContractKnown(self)
                 THEN [self EXCEPT !.contract_address = ContractAddress(self)]
                 ELSE self
        f == _filter_events(self1, q.events)
        self2 == [self1 EXCEPT !.event_args = f.event_args]
        v == AssertBlockchainEvents_verdict(self2, f.events)
        call == "assert_events._run"
    IN  IF q.status # "ok"
        THEN [self |-> self1,
              out |-> Outcome(call, q.status, q.message, <<>>, NoLocals, q.query)]
        ELSE IF f.status # "ok"
        THEN [self |-> self2,
              out |-> Outcome(call, f.status, <<>>, <<>>,
                              Locals(q.events, <<>>, <<>>), q.query)]
        ELSE [self |-> self2,
              out |-> Outcome(call, v.status, v.message, v.events,
                              Locals(q.events, f.events, f.events), q.query)]

----------------------------------------------------------------------------
(* AssertChannelSettledEventTask *)

\* config.get(key): the value, or None when the key is absent.
ConfigGet(config, key) == IF key \in DOMAIN config THEN config[key] ELSE PyNone

\* d[key] = value on a dict.
DictSet(d, key, value) ==
    [k \in DOMAIN d \cup {key} |-> IF k = key THEN value ELSE d[k]]

AssertChannelSettledEventTask_init(config) ==
    [_name |-> "assert_channel_settled_event",
     _config |-> config,
     initiator |-> _get_node_address(config.initiator),
     initiator_amount |-> ConfigGet(config, "initiator_amount"),
     partner |-> _get_node_address(config.partner),
     partner_amount |-> ConfigGet(config, "partner_amount"),
     contract_name |-> "TokenNetwork",
     event_name |-> "ChannelSettled",
     event_args |-> EmptyDict,
     contract_address |-> PyNone]

\* The constraint _filter_for_channel_settled builds.
ChannelSettledArgs(participant1, participant1_amount, participant2, participant2_amount) ==
    LET base == [participant1 |-> participant1, participant2 |-> participant2]
        with1 == IF participant1_amount # PyNone
                 THEN DictSet(base, "participant1_amount",
                              PyInt(ToInt(participant1_amount)))
                 ELSE base
    IN  IF participant2_amount # PyNone
        THEN DictSet(with1, "participant2_amount", PyInt(ToInt(participant2_amount)))
        ELSE with1

_filter_for_channel_settled(events, participant1, participant1_amount, participant2, participant2_amount) ==
    SelectSeq(events,
              LAMBDA e : ArgsMatch(ChannelSettledArgs(participant1, participant1_amount,
                                                      participant2, participant2_amount), e))

\* The events left after the query "in both directions": the second call is
\* made on `events` as the first call left it.
BothDirections(self, events) ==
    LET direct == _filter_for_channel_settled(events, self.initiator,
                      self.initiator_amount, self.partner, self.partner_amount)
    IN  IF Len(direct) = 0
        THEN _filter_for_channel_settled(direct, self.partner, self.partner_amount,
                                         self.initiator, self.initiator_amount)
        ELSE direct

\* A verdict that does not look at the transaction sender.
AssertChannelSettled_verdict_nosender(self, events) ==
    IF Len(events) # 1
    THEN [status |-> "ScenarioAssertionError",
          message |-> <<Text("Did not find expected ChannelSettled event!")>>,
          events |-> <<>>]
    ELSE [status |-> "ok", message |-> <<>>, events |-> events]

\* A verdict that only rejects an empty result.
AssertChannelSettled_verdict_nonempty(self, events) ==
    IF Len(events) = 0
    THEN [status |-> "ScenarioAssertionError",
          message |-> <<Text("Did not find expected ChannelSettled event!")>>,
          events |-> <<>>]
    ELSE IF get_transaction(events[1].transactionHash).from # self.initiator
    THEN [status |-> "ScenarioAssertionError",
          message |-> << Text("The ChannelSettled event was emitted from a tx by "),
                         get_transaction(events[1].transactionHash).from,
                         Text(", but was expected to be emitted from a tx by "),
                         self.initiator >>,
          events |-> <<>>]
    ELSE [status |-> "ok", message |-> <<>>, events |-> events]

\* The verdict of _run on the events left by the query in both directions.
AssertChannelSettled_verdict(self, events) ==
    IF Len(events) # 1
    THEN [status |-> "ScenarioAssertionError",
          message |-> <<Text("Did not find expected ChannelSettled event!")>>,
          events |-> <<>>]
    ELSE IF get_transaction(events[1].transactionHash).from # self.initiator
    THEN [status |-> "ScenarioAssertionError",
          message |-> << Text("The ChannelSettled event was emitted from a tx by "),
                         get_transaction(events[1].transactionHash).from,
                         Text(", but was expected to be emitted from a tx by "),
                         self.initiator >>,
          events |-> <<>>]
    ELSE [status |-> "ok", message |-> <<>>, events |-> events]

\* _run keeping a channel_identifier that an earlier call left in event_args.
AssertChannelSettledEventTask_run_keep(self) ==
    LET key == self._config.channel_info_key
        call == "assert_channel_settled_event._run"
    IN  IF key \notin DOMAIN task_storage
        THEN [self |-> self,
              out |-> Outcome(call, "ScenarioError",
                        <<Text("No stored channel info found for key '"), PyStr(key),
                          Text("'.")>>, <<>>, NoLocals, NoQuery)]
        ELSE
        LET channel_identifier == task_storage[key].channel_identifier
            self1 == [self EXCEPT
                        !.event_args =
                            IF "channel_identifier" \in DOMAIN self.event_args
                            THEN self.event_args
                            ELSE DictSet(self.event_args, "channel_identifier",
                                         PyInt(ToInt(channel_identifier))),
                        !.contract_address = ContractAddress(self)]
            q == _get_blockchain_events(self1)
            f == _filter_events(self1, q.events)
            self2 == [self1 EXCEPT !.event_args = f.event_args]
            events == BothDirections(self2, f.events)
            v == AssertChannelSettled_verdict(self2, events)
        IN  IF q.status # "ok"
            THEN [self |-> self1,
                  out |-> Outcome(call, q.status, q.message, <<>>, NoLocals, q.query)]
            ELSE [self |-> self2,
                  out |-> Outcome(call, v.status, v.message, v.events,
                                  Locals(q.events, f.events, events), q.query)]

\* _run: the task as the call leaves it, and the call's outcome.
AssertChannelSettledEventTask_run(self) ==
    LET key == self._config.channel_info_key
        call == "assert_channel_settled_event._run"
    IN  IF key \notin DOMAIN task_storage
        THEN [self |-> self,
              out |-> Outcome(call, "ScenarioError",
                        <<Text("No stored channel info found for key '"), PyStr(key),
                          Text("'.")>>, <<>>, NoLocals, NoQuery)]
        ELSE
        LET channel_identifier == task_storage[key].channel_identifier
            self1 == [self EXCEPT
                        !.event_args = DictSet(self.event_args, "channel_identifier",
                                               PyInt(ToInt(channel_identifier))),
                        !.contract_address = ContractAddress(self)]
            q == _get_blockchain_events(self1)
            f == _filter_events(self1, q.events)
            self2 == [self1 EXCEPT !.event_args = f.event_args]
            events == BothDirections(self2, f.events)
            v == AssertChannelSettled_verdict(self2, events)
        IN  IF q.status # "ok"
            THEN [self |-> self1,
                  out |-> Outcome(call, q.status, q.message, <<>>, NoLocals, q.query)]
            ELSE [self |-> self2,
                  out |-> Outcome(call, v.status, v.message, v.events,
                                  Locals(q.events, f.events, events), q.query)]

----------------------------------------------------------------------------
(* AssertMSClaimTask *)

REWARD_CLAIMED == "RewardClaimed"

\* Web3.soliditySha3(["uint256", "address"], [channel_identifier, address]):
\* a one-way hash, injective on the pairs of the model.
soliditySha3(channel_identifier, address) ==
    PyBytes(<<"sha3", channel_identifier, address>>)

AssertMSClaimTask_init(config) ==
    [_name |-> "assert_ms_claim",
     _config |-> config,
     contract_name |-> CONTRACT_MONITORING_SERVICE,
     contract_address |-> DeployedContracts[CONTRACT_MONITORING_SERVICE].address]

match_event(event, reward_id) ==
    IF event.event # REWARD_CLAIMED THEN FALSE
    ELSE event.args.reward_identifier = reward_id

\* self._config.get("must_claim", True)
must_claim(self) ==
    IF "must_claim" \in DOMAIN self._config THEN self._config.must_claim ELSE TRUE

\* A verdict that wants exactly one claim when a claim is required.
AssertMSClaim_verdict_exactly_one(self, events) ==
    IF must_claim(self) /\ Len(events) # 1
    THEN [status |-> "ScenarioAssertionError",
          message |-> <<Text("No RewardClaimed event found for this channel.")>>,
          events |-> <<>>]
    ELSE IF ~must_claim(self) /\ Len(events) > 0
    THEN [status |-> "ScenarioAssertionError",
          message |-> <<Text("Unexpected RewardClaimed event found for this channel.")>>,
          events |-> <<>>]
    ELSE [status |-> "ok", message |-> <<>>, events |-> events]

\* The verdict of _run on the matching events.
AssertMSClaim_verdict(self, events) ==
    LET found_events == Len(events) > 0
    IN  IF must_claim(self) /\ ~found_events
        THEN [status |-> "ScenarioAssertionError",
              message |-> <<Text("No RewardClaimed event found for this channel.")>>,
              events |-> <<>>]
        ELSE IF ~must_claim(self) /\ found_events
        THEN [status |-> "ScenarioAssertionError",
              message |-> <<Text("Unexpected RewardClaimed event found for this channel.")>>,
              events |-> <<>>]
        ELSE [status |-> "ok", message |-> <<>>, events |-> events]

\* The log query of AssertMSClaimTask._run.
AssertMSClaim_query(self) ==
    query_blockchain_events(self.contract_address, self.contract_name,
                            block_execution_started, blockNumber)

\* _run: the call's outcome (the task keeps no attribute it changes).
AssertMSClaimTask_run(self) ==
    LET key == self._config.channel_info_key
        call == "assert_ms_claim._run"
    IN  IF key \notin DOMAIN task_storage
        THEN Outcome(call, "ScenarioError",
                     <<Text("No stored channel info found for key '"), PyStr(key),
                       Text("'.")>>, <<>>, NoLocals, NoQuery)
        ELSE
        LET channel_infos == task_storage[key]
            reward_id == soliditySha3(ToInt(channel_infos.channel_identifier),
                                      channel_infos.token_network_address)
            q == AssertMSClaim_query(self)
            events == SelectSeq(q.events, LAMBDA e : match_event(e, reward_id))
            v == AssertMSClaim_verdict(self, events)
        IN  IF q.status # "ok"
            THEN [Outcome(call, q.status, q.message, <<>>, NoLocals, q.query)
                    EXCEPT !.reward_id = reward_id]
            ELSE [Outcome(call, v.status, v.message, v.events,
                          Locals(q.events, events, events), q.query)
                    EXCEPT !.reward_id = reward_id]

----------------------------------------------------------------------------
(* Inputs *)

\* The arguments of the events the token network emits in the model.
ClosedArgs(channel, closer, nonce) ==
    [channel_identifier |-> PyInt(channel), closing_participant |-> closer,
     nonce |-> PyInt(nonce)]

SettledArgs(channel, p1, a1, p2, a2) ==
    [channel_identifier |-> PyInt(channel),
     participant1 |-> p1, participant1_amount |-> PyInt(a1),
     participant2 |-> p2, participant2_amount |-> PyInt(a2)]

TokenNetworkLog(name, args, tx) ==
    EmitLog(token_network_address, EventOf(TokenNetworkABI, name), args, tx)

\* Logs mined while an assert_events task is exercised.
EventsLogs ==
    { TokenNetworkLog("ChannelClosed", ClosedArgs(1, AddrA, 2), "txA"),
      TokenNetworkLog("ChannelClosed", ClosedArgs(2, AddrB, 9), "txB"),
      TokenNetworkLog("ChannelSettled", SettledArgs(1, AddrA, 0, AddrB, 5), "txA"),
      UnknownLog(token_network_address),
      UnknownLog(DeployedContracts[CONTRACT_MONITORING_SERVICE].address) }

EventArgsChoices ==
    { EmptyDict,
      [closing_participant |-> PyInt(0)],
      [closing_participant |-> PyStr("01")],
      [closing_participant |-> PyStr("0xA")],
      [closing_participant |-> PyStr("sup2")],
      [channel_identifier |-> PyInt(1), nonce |-> PyInt(9)],
      [nonce |-> PyInt(9)],
      [nonce |-> PyStr("2")],
      [channel_identifier |-> PyInt(0), closing_participant |-> PyInt(1)] }

NumEventsChoices == {0, 1, 2, 3}

EventsConfigs ==
    { [contract_name |-> CONTRACT_TOKEN_NETWORK, event_name |-> "ChannelClosed",
       num_events |-> n, event_args |-> a] :
          n \in NumEventsChoices, a \in EventArgsChoices }
    \cup
    { [contract_name |-> c, event_name |-> "ChannelClosed", num_events |-> 0] :
          c \in {CONTRACT_TOKEN_NETWORK, "Unlisted"} }
    \cup
    { [contract_name |-> CONTRACT_TOKEN_NETWORK, event_name |-> "ChannelClosed"] }

\* Logs mined while an assert_channel_settled_event task is exercised.
SettledLogs ==
    { TokenNetworkLog("ChannelSettled", SettledArgs(1, AddrA, 0, AddrB, 5), "txA"),
      TokenNetworkLog("ChannelSettled", SettledArgs(1, AddrA, 0, AddrB, 5), "txB"),
      TokenNetworkLog("ChannelSettled", SettledArgs(1, AddrB, 5, AddrA, 0), "txA"),
      TokenNetworkLog("ChannelSettled", SettledArgs(1, AddrB, 5, AddrA, 0), "txB"),
      TokenNetworkLog("ChannelSettled", SettledArgs(2, AddrA, 0, AddrB, 5), "txA"),
      TokenNetworkLog("ChannelClosed", ClosedArgs(1, AddrA, 2), "txA"),
      UnknownLog(token_network_address) }

SettledConfigs ==
    { [initiator |-> PyInt(0), partner |-> PyInt(1), channel_info_key |-> "ch"],
      [initiator |-> PyStr("1"), partner |-> PyStr("0xA"), channel_info_key |-> "ch"],
      [initiator |-> PyInt(0), partner |-> PyInt(1), channel_info_key |-> "ch",
       initiator_amount |-> PyInt(0), partner_amount |-> PyStr("5")],
      [initiator |-> PyInt(0), partner |-> PyInt(1)] }

\* The channel info earlier tasks store under a key.
ChannelInfos ==
    { [channel_identifier |-> PyStr("1"), token_network_address |-> token_network_address],
      [channel_identifier |-> PyInt(2), token_network_address |-> token_network_address] }

MonitoringServiceLog(name, args, tx) ==
    EmitLog(DeployedContracts[CONTRACT_MONITORING_SERVICE].address,
            EventOf(MonitoringServiceABI, name), args, tx)

\* Logs mined while an assert_ms_claim task is exercised.
ClaimLogs ==
    { MonitoringServiceLog(REWARD_CLAIMED,
          [reward_identifier |-> soliditySha3(1, token_network_address)], "txC"),
      MonitoringServiceLog(REWARD_CLAIMED,
          [reward_identifier |-> soliditySha3(2, token_network_address)], "txC"),
      MonitoringServiceLog("NewBalanceProofReceived",
          [reward_identifier |-> soliditySha3(1, token_network_address),
           nonce |-> PyInt(1)], "txC"),
      UnknownLog(DeployedContracts[CONTRACT_MONITORING_SERVICE].address),
      TokenNetworkLog("ChannelSettled", SettledArgs(1, AddrA, 0, AddrB, 5), "txA") }

ClaimConfigs ==
    { [channel_info_key |-> "ch"],
      [channel_info_key |-> "ch", must_claim |-> TRUE],
      [channel_info_key |-> "ch", must_claim |-> FALSE],
      [must_claim |-> TRUE] }

\* Logs and configurations for exercising the three tasks side by side.
ChainLogs ==
    { TokenNetworkLog("ChannelClosed", ClosedArgs(1, AddrA, 2), "txA"),
      TokenNetworkLog("ChannelSettled", SettledArgs(1, AddrA, 0, AddrB, 5), "txB"),
      TokenNetworkLog("ChannelSettled", SettledArgs(1, AddrB, 5, AddrA, 0), "txA"),
      UnknownLog(token_network_address),
      MonitoringServiceLog(REWARD_CLAIMED,
          [reward_identifier |-> soliditySha3(1, token_network_address)], "txC"),
      UnknownLog(DeployedContracts[CONTRACT_MONITORING_SERVICE].address) }

ChainEventsConfigs ==
    { [contract_name |-> CONTRACT_TOKEN_NETWORK, event_name |-> "ChannelClosed",
       num_events |-> n] : n \in {1, 2} }
    \cup
    { [contract_name |-> CONTRACT_MONITORING_SERVICE, event_name |-> REWARD_CLAIMED,
       num_events |-> 1],
      [contract_name |-> "Unlisted", event_name |-> "ChannelClosed", num_events |-> 0],
      [contract_name |-> CONTRACT_TOKEN_NETWORK, event_name |-> "ChannelClosed",
       num_events |-> 1, event_args |-> [closing_participant |-> PyInt(0)]] }

ChainSettledConfigs ==
    { [initiator |-> PyInt(0), partner |-> PyInt(1), channel_info_key |-> "ch"] }

----------------------------------------------------------------------------
(* Actions *)

Init ==
    /\ blockNumber \in {0, 1}
    /\ block_execution_started = blockNumber
    /\ logs = <<>>
    /\ task_storage = EmptyDict
    /\ task = NoTask
    /\ result = NoResult

\* The chain head advances by one block, which holds at most one log.
MineBlock(catalogue) ==
    /\ blockNumber < MaxBlock
    /\ blockNumber' = blockNumber + 1
    /\ \/ logs' = logs
       \/ \E l \in catalogue :
            logs' = Append(logs, [l EXCEPT !.blockNumber = blockNumber + 1])
    /\ UNCHANGED <<block_execution_started, task_storage, task, result>>

\* AssertBlockchainEventsTask.__init__
NewAssertBlockchainEventsTask(configs) ==
    \E config \in configs :
        /\ IF _verify_config_raises(config, {"contract_name", "event_name", "num_events"})
           THEN /\ task' = NoTask
                /\ result' = Outcome("assert_events.__init__", "ScenarioError",
                        <<Text("Not all required keys provided. Required: "),
                          Text("contract_name, event_name, num_events")>>,
                        <<>>, NoLocals, NoQuery)
           ELSE /\ task' = AssertBlockchainEventsTask_init(config)
                /\ result' = NoResult
        /\ UNCHANGED <<blockNumber, logs, block_execution_started, task_storage>>

\* AssertBlockchainEventsTask._run
RunAssertBlockchainEventsTask ==
    /\ task._name = "assert_events"
    /\ task' = AssertBlockchainEventsTask_run(task).self
    /\ result' = AssertBlockchainEventsTask_run(task).out
    /\ UNCHANGED <<blockNumber, logs, block_execution_started, task_storage>>

NextEvents ==
    \/ MineBlock(EventsLogs)
    \/ NewAssertBlockchainEventsTask(EventsConfigs)
    \/ RunAssertBlockchainEventsTask

SpecEvents == Init /\ [][NextEvents]_vars

\* An earlier task of the scenario stores channel info under a key.
StoreChannelInfo ==
    /\ \E infos \in ChannelInfos : task_storage' = DictSet(task_storage, "ch", infos)
    /\ UNCHANGED <<blockNumber, logs, block_execution_started, task, result>>

\* AssertChannelSettledEventTask.__init__
NewAssertChannelSettledEventTask(configs) ==
    \E config \in configs :
        /\ IF _verify_config_raises(config, {"initiator", "partner", "channel_info_key"})
           THEN /\ task' = NoTask
                /\ result' = Outcome("assert_channel_settled_event.__init__",
                        "ScenarioError",
                        <<Text("Not all required keys provided. Required: "),
                          Text("initiator, partner, channel_info_key")>>,
                        <<>>, NoLocals, NoQuery)
           ELSE /\ task' = AssertChannelSettledEventTask_init(config)
                /\ result' = NoResult
        /\ UNCHANGED <<blockNumber, logs, block_execution_started, task_storage>>

\* AssertChannelSettledEventTask._run
RunAssertChannelSettledEventTask ==
    /\ task._name = "assert_channel_settled_event"
    /\ task' = AssertChannelSettledEventTask_run(task).self
    /\ result' = AssertChannelSettledEventTask_run(task).out
    /\ UNCHANGED <<blockNumber, logs, block_execution_started, task_storage>>

NextSettled ==
    \/ MineBlock(SettledLogs)
    \/ StoreChannelInfo
    \/ NewAssertChannelSettledEventTask(SettledConfigs)
    \/ RunAssertChannelSettledEventTask

SpecSettled == Init /\ [][NextSettled]_vars

\* AssertMSClaimTask.__init__
NewAssertMSClaimTask(configs) ==
    \E config \in configs :
        /\ IF ~({"channel_info_key"} \subseteq DOMAIN config)
           THEN /\ task' = NoTask
                /\ result' = Outcome("assert_ms_claim.__init__", "ScenarioError",
                        <<Text("Not all required keys provided. Required: "),
                          Text("channel_info_key")>>,
                        <<>>, NoLocals, NoQuery)
           ELSE /\ task' = AssertMSClaimTask_init(config)
                /\ result' = NoResult
        /\ UNCHANGED <<blockNumber, logs, block_execution_started, task_storage>>

\* AssertMSClaimTask._run
RunAssertMSClaimTask ==
    /\ task._name = "assert_ms_claim"
    /\ result' = AssertMSClaimTask_run(task)
    /\ UNCHANGED <<blockNumber, logs, block_execution_started, task_storage, task>>

NextClaim ==
    \/ MineBlock(ClaimLogs)
    \/ StoreChannelInfo
    \/ NewAssertMSClaimTask(ClaimConfigs)
    \/ RunAssertMSClaimTask

SpecClaim == Init /\ [][NextClaim]_vars

Next ==
    \/ MineBlock(ChainLogs)
    \/ StoreChannelInfo
    \/ NewAssertBlockchainEventsTask(ChainEventsConfigs)
    \/ RunAssertBlockchainEventsTask
    \/ NewAssertChannelSettledEventTask(ChainSettledConfigs)
    \/ RunAssertChannelSettledEventTask
    \/ NewAssertMSClaimTask(ClaimConfigs)
    \/ RunAssertMSClaimTask

Spec == Init /\ [][Next]_vars

----------------------------------------------------------------------------
(* Properties of the matcher and of the exact-count assertion *)

\* The last call was a _run of `name` in which the matcher returned.
MatcherReturned(name) ==
    /\ result.call = name
    /\ result.status \in {"ok", "ScenarioAssertionError"}

\* A constraint pair of `constraint` is also a pair of the event's arguments.
SharesPair(constraint, e) ==
    \E k \in DOMAIN constraint :
        k \in DOMAIN e.args /\ e.args[k] = constraint[k]

\* C1: the matcher keeps an event iff its name is the target event name and
\* the (participant-resolved) constraint set is empty or shares at least one
\* (name, value) pair with the event's arguments; the order is kept.
C1_MatcherIntersection ==
    MatcherReturned("assert_events._run") =>
        result.matched =
            SelectSeq(result.fetched,
                   LAMBDA e : /\ e.event = task.event_name
                              /\ \/ DOMAIN task.event_args = {}
                                 \/ SharesPair(task.event_args, e))

\* C1 witness: under {channel_identifier: 1, nonce: 9} an event with nonce 2
\* is kept (on channel_identifier) while another fetched event is dropped.
C1_Witness ==
    /\ MatcherReturned("assert_events._run")
    /\ task.event_args = [channel_identifier |-> PyInt(1), nonce |-> PyInt(9)]
    /\ \E i \in 1..Len(result.matched) : result.matched[i].args.nonce = PyInt(2)
    /\ Len(result.matched) < Len(result.fetched)

\* C2: the exact-count assertion returns the matched events iff their number
\* equals num_events, and raises ScenarioAssertionError for any other count.
C2_ExactCount ==
    MatcherReturned("assert_events._run") =>
        /\ result.status = "ok" <=> Len(result.matched) = task.num_events
        /\ result.status = "ok" => result.events = result.matched
        /\ result.status # "ok" => result.status = "ScenarioAssertionError"

\* C2 witness: 3 fetched logs, 2 of them ChannelClosed, num_events = 2 succeeds.
C2_Witness ==
    /\ result.call = "assert_events._run"
    /\ result.status = "ok"
    /\ Len(result.fetched) = 3
    /\ Len(result.events) = 2
    /\ task.num_events = 2

\* The argument names that contain the substring "participant".
ParticipantNames ==
    {"closing_participant", "participant1", "participant2",
     "participant1_amount", "participant2_amount"}

\* The node a constraint value denotes: an integer, or a string of decimal digits.
DenotesNode(v) == v \in {PyInt(0), PyInt(1), PyStr("0"), PyStr("1"), PyStr("01")}

DenotedNode(v) == IF v \in {PyInt(0), PyStr("0")} THEN 0 ELSE 1

\* The constraint the matcher is to compare with, given the configured one.
ExpectedConstraint(configured) ==
    [k \in DOMAIN configured |->
        IF k \in ParticipantNames /\ DenotesNode(configured[k])
        THEN NodeAddresses[DenotedNode(configured[k]) + 1]
        ELSE configured[k]]

\* C7: a constraint value is replaced by the address of node N iff its name
\* contains "participant" and the value is the integer N or a numeric string
\* denoting N; every other constraint is compared as the literal supplied.
C7_ParticipantResolution ==
    (MatcherReturned("assert_events._run") /\ "event_args" \in DOMAIN task._config) =>
        /\ task.event_args = ExpectedConstraint(task._config.event_args)
        /\ result.matched =
            SelectSeq(result.fetched,
                   LAMBDA e : /\ e.event = task.event_name
                              /\ \/ DOMAIN task._config.event_args = {}
                                 \/ SharesPair(ExpectedConstraint(task._config.event_args), e))

\* C7 witness: {channel_identifier: 0, closing_participant: 1} keeps the literal
\* 0 and resolves node 1, and the resolved address matches an event.
C7_Witness ==
    /\ MatcherReturned("assert_events._run")
    /\ "event_args" \in DOMAIN task._config
    /\ task._config.event_args =
          [channel_identifier |-> PyInt(0), closing_participant |-> PyInt(1)]
    /\ task.event_args =
          [channel_identifier |-> PyInt(0), closing_participant |-> AddrB]
    /\ Len(result.matched) > 0

----------------------------------------------------------------------------
(* Properties of the bidirectional settlement assertion *)

SettledRun == "assert_channel_settled_event._run"

\* The sender of the transaction that emitted the event.
SenderOf(e) == Transactions[e.transactionHash].from

\* C3: when the only ChannelSettled event of the channel records
\* (participant1 = B, participant2 = A), the caller asks for (initiator = A,
\* partner = B) without amounts and the transaction sender is A, the swapped
\* retry finds the event and the assertion succeeds.
C3_SwappedRetryFinds ==
    ( /\ result.call = SettledRun
      /\ task.initiator = AddrA /\ task.partner = AddrB
      /\ task.initiator_amount = PyNone /\ task.partner_amount = PyNone
      /\ Len(result.matched) = 1
      /\ result.matched[1].args.participant1 = AddrB
      /\ result.matched[1].args.participant2 = AddrA
      /\ SenderOf(result.matched[1]) = AddrA )
    => /\ result.survivors = result.matched
       /\ result.status = "ok"
       /\ result.events = result.matched

\* C4: when exactly one settlement event survives but its transaction was not
\* sent by the initiator the assertion raises ScenarioAssertionError; it never
\* succeeds with an event sent by another address.
C4_WrongSenderFails ==
    result.call = SettledRun =>
        /\ (Len(result.survivors) = 1 /\ SenderOf(result.survivors[1]) # task.initiator)
              => result.status = "ScenarioAssertionError"
        /\ result.status = "ok" =>
              \A i \in 1..Len(result.events) : SenderOf(result.events[i]) = task.initiator

\* C4 witness: one surviving event, sent by the partner, and the call failed.
C4_Witness ==
    /\ result.call = SettledRun
    /\ Len(result.survivors) = 1
    /\ SenderOf(result.survivors[1]) = task.partner
    /\ task.partner # task.initiator
    /\ result.status = "ScenarioAssertionError"

\* C5: the assertion raises ScenarioAssertionError whenever the number of
\* surviving settlement events is not exactly one; a successful result holds
\* exactly one event.
C5_ExactlyOneSettled ==
    MatcherReturned(SettledRun) =>
        /\ Len(result.survivors) # 1 => result.status = "ScenarioAssertionError"
        /\ result.status = "ok" =>
              Len(result.events) = 1 /\ result.events = result.survivors

\* C5 witness: two settlement events of the channel survive and the call fails.
C5_Witness ==
    /\ MatcherReturned(SettledRun)
    /\ Len(result.survivors) = 2
    /\ result.status = "ScenarioAssertionError"

----------------------------------------------------------------------------
(* Properties of the claim assertion *)

ClaimRun == "assert_ms_claim._run"

\* The number of fetched RewardClaimed events that carry the computed reward
\* identifier.
ClaimsFound ==
    Cardinality({i \in 1..Len(result.fetched) :
                    /\ result.fetched[i].event = "RewardClaimed"
                    /\ result.fetched[i].args.reward_identifier = result.reward_id})

\* must_claim as configured, true when absent.
MustClaim ==
    IF "must_claim" \in DOMAIN task._config THEN task._config.must_claim ELSE TRUE

\* C6: with n the number of fetched RewardClaimed events of the computed
\* reward identifier, the claim assertion fails iff (must_claim and n = 0) or
\* (not must_claim and n >= 1); otherwise it returns those n events.
C6_ClaimPolarity ==
    MatcherReturned(ClaimRun) =>
        /\ result.status = "ScenarioAssertionError" <=>
              \/ MustClaim /\ ClaimsFound = 0
              \/ ~MustClaim /\ ClaimsFound >= 1
        /\ result.status = "ok" => Len(result.events) = ClaimsFound

\* C6 witness: must_claim absent, two matching claims, and the call succeeds.
C6_Witness ==
    /\ MatcherReturned(ClaimRun)
    /\ "must_claim" \notin DOMAIN task._config
    /\ ClaimsFound = 2
    /\ Len(result.fetched) = 3
    /\ result.status = "ok"

----------------------------------------------------------------------------
(* Properties shared by the three assertion tasks *)

EventsRun == "assert_events._run"

\* C8: every log query a call issues has from_block equal to
\* block_execution_started and to_block equal to the chain head at that call,
\* whatever earlier calls read.
C8_FreshBlockRange ==
    result.query # NoQuery =>
        /\ result.query.fromBlock = block_execution_started
        /\ result.query.toBlock = result.at_block

\* C8 witness: the head has advanced since the execution started, a call
\* queried up to the new head and was answered with a log of that last block.
C8_Witness ==
    /\ result.query # NoQuery
    /\ result.at_block > block_execution_started + 1
    /\ result.query.toBlock = result.at_block
    /\ \E i \in 1..Len(result.fetched) : result.fetched[i].blockNumber = result.at_block

\* The event names of the contract at an address, as its interface lists them.
ListedEvents(address) ==
    IF address = PyStr("0xTN") THEN {"ChannelClosed", "ChannelSettled"}
    ELSE {"RewardClaimed", "NewBalanceProofReceived"}

\* The raw logs the last call's query returned.
QueriedLogs ==
    {i \in 1..Len(logs) :
        /\ logs[i].address = result.query.address
        /\ result.query.fromBlock <= logs[i].blockNumber
        /\ logs[i].blockNumber <= result.query.toBlock}

Unlisted(l) == \A n \in ListedEvents(l.address) : l.topics[1] # <<"topic", n>>

\* C9: when a raw log returned by the query has a topic[0] that is no event
\* signature of the contract's interface, the call ends in an error (the
\* KeyError of decode_event) and returns no events.
C9_UnknownTopicFails ==
    (result.query # NoQuery /\ \E i \in QueriedLogs : Unlisted(logs[i])) =>
        /\ result.status = "KeyError"
        /\ result.events = <<>>

\* C9 witness: an exact-count assertion for one ChannelClosed event fails with
\* KeyError although the query returned exactly one ChannelClosed log beside
\* the unlisted one.
C9_Witness ==
    /\ result.call = EventsRun
    /\ result.status = "KeyError"
    /\ task.num_events = 1 /\ task.event_name = "ChannelClosed"
    /\ Cardinality(QueriedLogs) = 2
    /\ \E i \in QueriedLogs : logs[i].topics[1] = <<"topic", "ChannelClosed">>
    /\ \E i \in QueriedLogs : Unlisted(logs[i])

Carries(v) == \E i \in 1..Len(result.message) : result.message[i] = v

\* What each assertion expected and what it found.
ExpectedValue ==
    CASE result.call = EventsRun -> PyInt(task.num_events)
      [] result.call = SettledRun ->
            IF Len(result.survivors) = 1 THEN task.initiator ELSE PyInt(1)
      [] result.call = ClaimRun -> IF MustClaim THEN PyInt(1) ELSE PyInt(0)

ActualValue ==
    CASE result.call = EventsRun -> PyInt(Len(result.survivors))
      [] result.call = SettledRun ->
            IF Len(result.survivors) = 1 THEN SenderOf(result.survivors[1])
            ELSE PyInt(Len(result.survivors))
      [] result.call = ClaimRun -> PyInt(Len(result.survivors))

\* C10 as stated: every assertion failure of the three tasks carries the
\* expected and the actual value or count in its message.
C10_EveryFailureCarriesBoth ==
    result.status = "ScenarioAssertionError" =>
        Carries(ExpectedValue) /\ Carries(ActualValue)

\* C10 amended: the exact-count failure carries num_events and the number of
\* events found, and the settlement failure for a wrong sender carries the
\* sender and the initiator; the settlement failure for a count other than one
\* and both claim failures carry a fixed text and no value.
C10_FailureMessages ==
    result.status = "ScenarioAssertionError" =>
        /\ result.call = EventsRun => Carries(ExpectedValue) /\ Carries(ActualValue)
        /\ (result.call = SettledRun /\ Len(result.survivors) = 1)
              => Carries(ExpectedValue) /\ Carries(ActualValue)
        /\ (result.call = SettledRun /\ Len(result.survivors) # 1)
              => result.message = <<Text("Did not find expected ChannelSettled event!")>>
        /\ (result.call = ClaimRun /\ MustClaim)
              => result.message =
                    <<Text("No RewardClaimed event found for this channel.")>>
        /\ (result.call = ClaimRun /\ ~MustClaim)
              => result.message =
                    <<Text("Unexpected RewardClaimed event found for this channel.")>>

\* C10 witness: an exact-count failure that expected 2 events and found 1.
C10_Witness ==
    /\ result.call = EventsRun
    /\ result.status = "ScenarioAssertionError"
    /\ task.num_events = 2
    /\ Len(result.survivors) = 1
    /\ Carries(PyInt(2)) /\ Carries(PyInt(1))

----------------------------------------------------------------------------
(* C11: a used task against a freshly constructed one *)

\* The task __init__ builds from the configuration the task was built from.
FreshTask(self) ==
    CASE self._name = "assert_events" -> AssertBlockchainEventsTask_init(self._config)
      [] self._name = "assert_channel_settled_event" ->
            AssertChannelSettledEventTask_init(self._config)
      [] self._name = "assert_ms_claim" -> AssertMSClaimTask_init(self._config)

\* What a call of self._run made in the current state returns or raises.
RunNow(self) ==
    CASE self._name = "assert_events" -> AssertBlockchainEventsTask_run(self).out
      [] self._name = "assert_channel_settled_event" ->
            AssertChannelSettledEventTask_run(self).out
      [] self._name = "assert_ms_claim" -> AssertMSClaimTask_run(self)

\* The verdict of a call, the events it returns and the events it matched.
Verdict(out) ==
    [status |-> out.status, message |-> out.message, events |-> out.events,
     matched |-> out.matched, survivors |-> out.survivors]

\* C11: whatever calls of _run a task has been through, a further call made
\* now gives the verdict and the matched events that the first call of a task
\* freshly constructed from the same configuration gives against the same
\* chain, node registry and task storage.
C11_NoRetainedState ==
    task # NoTask => Verdict(RunNow(task)) = Verdict(RunNow(FreshTask(task)))

\* C11 witness: a task whose event_args an earlier call rewrote from node
\* index 0 to the node's address, and whose result is that call's.
C11_Witness ==
    /\ result.call = EventsRun
    /\ result.status = "ok"
    /\ "event_args" \in DOMAIN task._config
    /\ task._config.event_args = [closing_participant |-> PyInt(0)]
    /\ task.event_args = [closing_participant |-> AddrA]
    /\ task # FreshTask(task)
    /\ Len(result.events) = 1
    /\ Verdict(RunNow(task)) = Verdict(result)

----------------------------------------------------------------------------
(* C12: the settlement assertion is bound to the stored channel *)

\* The integer that the channel identifier stored under the key denotes.
StoredChannel(key) ==
    LET stored == task_storage[key].channel_identifier
    IN  CASE stored \in {PyInt(1), PyStr("1")} -> 1
          [] stored \in {PyInt(2), PyStr("2")} -> 2

\* C12: a call of the settlement assertion made now succeeds only with a single
\* ChannelSettled event whose channel_identifier is the integer stored in task
\* storage under the configured channel_info_key, so an event of another
\* channel never makes it succeed; with nothing stored under the key the call
\* raises ScenarioError and no log query has been made.
C12_BoundToStoredChannel ==
    task._name = "assert_channel_settled_event" =>
        LET key == task._config.channel_info_key
            out == AssertChannelSettledEventTask_run(task).out
        IN  /\ out.status = "ok" =>
                /\ key \in DOMAIN task_storage
                /\ Len(out.events) = 1
                /\ out.events[1].event = "ChannelSettled"
                /\ out.events[1].args.channel_identifier = PyInt(StoredChannel(key))
            /\ key \notin DOMAIN task_storage =>
                /\ out.status = "ScenarioError"
                /\ out.query = NoQuery
                /\ out.fetched = <<>>

\* C12 witness: channel 2 is stored, the chain holds settlement events of
\* channels 1 and 2 between the same two participants, and the call that
\* produced the result succeeded with the event of channel 2.
C12_Witness ==
    /\ result.call = SettledRun
    /\ result.status = "ok"
    /\ result = AssertChannelSettledEventTask_run(task).out
    /\ task_storage[task._config.channel_info_key].channel_identifier = PyInt(2)
    /\ result.events[1].args.channel_identifier = PyInt(2)
    /\ \E i \in 1..Len(result.fetched) :
          /\ result.fetched[i].event = "ChannelSettled"
          /\ result.fetched[i].args.channel_identifier = PyInt(1)
          /\ result.fetched[i].args.participant1 = result.events[1].args.participant1
          /\ result.fetched[i].args.participant2 = result.events[1].args.participant2

====
